---- MODULE Spec2Model ----
(***************************************************************************)
(* Verification model of the Partner Filo invoice tooling:                 *)
(*   - parser.py            clean_and_convert_decimal, parse_pdf_invoice   *)
(*   - app.py               the Streamlit script (session state, batch     *)
(*                          loop, validation panel, build_upload_df)       *)
(*   - extractor/parser.py  find_header_row, find_column,                  *)
(*                          process_transactions                           *)
(*   - extractor/llm_client.py  extract_with_llm                           *)
(*   - the file matcher find_match, as the specification describes it      *)
(* Strings are sequences of one-character strings. Money is counted in     *)
(* cents, VAT rates in hundredths (Decimal path) or thousandths            *)
(* (float path).                                                           *)
(***************************************************************************)
EXTENDS Integers, Sequences, FiniteSets, TLC

VARIABLES
    text_value, dec_result,
    uploaded_files, parsed_data, edited_data, error_log, upload_df, escaped,
    transaction_file, summary_data, pdf_text, header_row, tx_result,
    api_key, oracle, openai_api_key, requests, llm_result, llm_log,
    invoice_filename, candidate_filenames, best_match

decVars == <<text_value, dec_result>>
appVars == <<uploaded_files, parsed_data, edited_data, error_log, upload_df, escaped>>
txVars  == <<transaction_file, summary_data, pdf_text, header_row, tx_result>>
llmVars == <<api_key, oracle, openai_api_key, requests, llm_result, llm_log>>
matchVars == <<invoice_filename, candidate_filenames, best_match>>
vars    == <<decVars, appVars, txVars, llmVars, matchVars>>

(***************************************************************************)
(* Bounds of the model.                                                    *)
(***************************************************************************)
MaxLen == 5
MaxFiles == 2
MaxCalls == 3
MaxRows == 11
MaxData == 2
MaxEdits == 2
MaxCands == 3

(***************************************************************************)
(* Strings.                                                                *)
(***************************************************************************)
Digits == <<"0", "1", "2", "3", "4", "5", "6", "7", "8", "9">>
LowerChars == <<"a","b","c","d","e","f","g","h","i","j","k","l","m","n","o","p","q","r","s","t","u","v","w","x","y","z">>
UpperChars == <<"A","B","C","D","E","F","G","H","I","J","K","L","M","N","O","P","Q","R","S","T","U","V","W","X","Y","Z">>

IsDigit(c) == \E i \in 1..10 : Digits[i] = c
DigitVal(c) == (CHOOSE i \in 1..10 : Digits[i] = c) - 1

\* str.upper() on one character (ASCII letters).
\* (f @@ <<>> is f; it makes TLC tabulate the function once)
UpperMap == [c \in {LowerChars[i] : i \in 1..26} |-> UpperChars[CHOOSE i \in 1..26 : LowerChars[i] = c]] @@ <<>>
UpperChar(c) == IF c \in DOMAIN UpperMap THEN UpperMap[c] ELSE c

\* str.upper()
Upper(s) == [i \in 1..Len(s) |-> UpperChar(s[i])]

\* key in s  (substring containment)
Contains(s, key) ==
    \E i \in 1..(Len(s) - Len(key) + 1) : SubSeq(s, i, i + Len(key) - 1) = key

RECURSIVE Replace(_, _, _)
\* str.replace(old, new) for a one-character old and a new of length 0 or 1.
Replace(s, old, new) ==
    IF s = <<>> THEN <<>>
    ELSE (IF Head(s) = old THEN new ELSE <<Head(s)>>) \o Replace(Tail(s), old, new)

RECURSIVE Pow10(_)
Pow10(n) == IF n = 0 THEN 1 ELSE 10 * Pow10(n - 1)

RECURSIVE DigitsValue(_)
\* the integer a string of digits denotes ("" denotes 0)
DigitsValue(s) ==
    IF s = <<>> THEN 0
    ELSE DigitsValue(SubSeq(s, 1, Len(s) - 1)) * 10 + DigitVal(s[Len(s)])

(***************************************************************************)
(* decimal.Decimal, as far as parser.py and app.py use it: non-negative    *)
(* fixed-point numbers [coef, scale] meaning coef / 10^scale.              *)
(***************************************************************************)
\* Decimal(str): digits with at most one '.', at least one digit; anything
\* else raises decimal.InvalidOperation.
DecimalFromStr(s) ==
    LET dots == {i \in 1..Len(s) : s[i] = "."}
        ok   == /\ \A i \in 1..Len(s) : IsDigit(s[i]) \/ s[i] = "."
                /\ Cardinality(dots) <= 1
                /\ \E i \in 1..Len(s) : IsDigit(s[i])
        p    == IF dots = {} THEN Len(s) + 1 ELSE CHOOSE i \in dots : TRUE
    IN  IF ok
        THEN [status |-> "ok",
              coef   |-> DigitsValue(SubSeq(s, 1, p - 1) \o SubSeq(s, p + 1, Len(s))),
              scale  |-> IF dots = {} THEN 0 ELSE Len(s) - p]
        ELSE [status |-> "InvalidOperation", coef |-> 0, scale |-> 0]

\* Decimal.quantize(Decimal('0.01'), rounding=ROUND_HALF_UP), result in cents.
QuantizeHalfUp(coef, scale) ==
    IF scale <= 2 THEN coef * Pow10(2 - scale)
    ELSE LET unit == Pow10(scale - 2)
             q    == coef \div unit
             r    == coef % unit
         IN  IF 2 * r >= unit THEN q + 1 ELSE q

\* Decimal.quantize(Decimal('0.01')) under the default context, whose rounding
\* is ROUND_HALF_EVEN; result in cents.
QuantizeHalfEven(coef, scale) ==
    IF scale <= 2 THEN coef * Pow10(2 - scale)
    ELSE LET unit == Pow10(scale - 2)
             q    == coef \div unit
             r    == coef % unit
         IN  IF 2 * r > unit \/ (2 * r = unit /\ q % 2 = 1) THEN q + 1 ELSE q

\* An optional string argument: None or a str.
NoneStr == [isNone |-> TRUE, s |-> <<>>]
Str(s) == [isNone |-> FALSE, s |-> s]

\* Mutant of clean_and_convert_decimal: the two replace calls swapped, so the
\* decimal comma becomes a '.' that is then removed with the thousands dots.
clean_and_convert_decimal_swapped(v) ==
    IF v.isNone \/ v.s = <<>> THEN [status |-> "ok", cents |-> 0]
    ELSE LET d == DecimalFromStr(Replace(Replace(v.s, ",", <<".">>), ".", <<>>))
         IN  IF d.status = "ok"
             THEN [status |-> "ok", cents |-> QuantizeHalfUp(d.coef, d.scale)]
             ELSE [status |-> "InvalidOperation", cents |-> 0]

\* parser.py clean_and_convert_decimal
clean_and_convert_decimal(v) ==
    IF v.isNone \/ v.s = <<>> THEN [status |-> "ok", cents |-> 0]
    ELSE LET cleaned_text == Replace(Replace(v.s, ".", <<>>), ",", <<".">>)
             d == DecimalFromStr(cleaned_text)
         IN  IF d.status = "ok"
             THEN [status |-> "ok", cents |-> QuantizeHalfUp(d.coef, d.scale)]
             ELSE [status |-> "InvalidOperation", cents |-> 0]


(***************************************************************************)
(* Values the variable groups hold while a specification does not use them.*)
(***************************************************************************)
DecIdle ==
    /\ text_value = NoneStr
    /\ dec_result = [status |-> "pending", cents |-> 0]

AppIdle ==
    /\ uploaded_files = <<>>
    /\ parsed_data = <<>>
    /\ edited_data = <<>>
    /\ error_log = <<>>
    /\ upload_df = <<>>
    /\ escaped = "none"

TxIdle ==
    /\ transaction_file = [ext |-> ".csv", rows |-> <<>>]
    /\ summary_data = [none |-> TRUE]
    /\ pdf_text = <<>>
    /\ header_row = [status |-> "pending"]
    /\ tx_result = [status |-> "pending"]

MatchIdle ==
    /\ invoice_filename = <<>>
    /\ candidate_filenames = <<>>
    /\ best_match = [status |-> "idle"]

LlmIdle ==
    /\ api_key = NoneStr
    /\ oracle = "none"
    /\ openai_api_key = NoneStr
    /\ requests = <<>>
    /\ llm_result = [status |-> "idle"]
    /\ llm_log = {}

(***************************************************************************)
(* SpecDecimal: clean_and_convert_decimal applied to bounded inputs.       *)
(***************************************************************************)
DecAlphabet == {"0", "4", "5", "9", ".", ","}

SeqsUpTo(A, n) == UNION {[1..k -> A] : k \in 0..n}

\* "3.450.961,18", the example of the oracle prompt
ExampleAmount == <<"3",".","4","5","0",".","9","6","1",",","1","8">>

DecInputs ==
    {NoneStr} \cup {Str(s) : s \in SeqsUpTo(DecAlphabet, MaxLen) \cup {ExampleAmount}}

InitDecimal ==
    /\ text_value \in DecInputs
    /\ dec_result = [status |-> "pending", cents |-> 0]
    /\ AppIdle /\ TxIdle /\ LlmIdle /\ MatchIdle

CallCleanAndConvertDecimal ==
    /\ dec_result.status = "pending"
    /\ dec_result' = clean_and_convert_decimal(text_value)
    /\ UNCHANGED <<text_value, appVars, txVars, llmVars, matchVars>>

NextDecimal == CallCleanAndConvertDecimal

SpecDecimal == InitDecimal /\ [][NextDecimal]_vars

\* A Turkish-locale decimal string: digits, '.' and ',' only, at least one
\* digit, at most one ','.
TurkishForm(s) ==
    /\ \A i \in 1..Len(s) : IsDigit(s[i]) \/ s[i] \in {".", ","}
    /\ \E i \in 1..Len(s) : IsDigit(s[i])
    /\ Cardinality({i \in 1..Len(s) : s[i] = ","}) <= 1

NotDot(c) == c # "."

\* The value the claim describes, in cents: every '.' deleted, ',' read as the
\* decimal point, the third fractional digit deciding the half-up rounding.
RefCents(s) ==
    LET t == SelectSeq(s, NotDot)
        commas == {i \in 1..Len(t) : t[i] = ","}
        p == IF commas = {} THEN Len(t) + 1 ELSE CHOOSE i \in commas : TRUE
        frac(k) == IF p + k <= Len(t) THEN DigitVal(t[p + k]) ELSE 0
        RECURSIVE whole(_)
        whole(i) == IF i = 0 THEN 0 ELSE whole(i - 1) * 10 + DigitVal(t[i])
    IN  whole(p - 1) * 100 + frac(1) * 10 + frac(2) + (IF frac(3) >= 5 THEN 1 ELSE 0)

\* C3: for every Turkish-locale decimal string clean_and_convert_decimal
\* returns the value with every '.' deleted and ',' read as the decimal point,
\* rounded half-up to 2 fractional digits; empty or missing input returns 0.00
\* and is not an error.
C3_LocaleDecimal ==
    dec_result.status # "pending" =>
        /\ (text_value.isNone \/ text_value.s = <<>>)
              => dec_result = [status |-> "ok", cents |-> 0]
        /\ (~text_value.isNone /\ TurkishForm(text_value.s))
              => dec_result = [status |-> "ok", cents |-> RefCents(text_value.s)]

\* "3.450.961,18" has been converted to 3450961.18, and "9,995" rounds up.
C3_Witness ==
    \/ text_value = Str(ExampleAmount) /\ dec_result = [status |-> "ok", cents |-> 345096118]
    \/ text_value = Str(<<"9", ",", "9", "9", "5">>) /\ dec_result = [status |-> "ok", cents |-> 1000]


(***************************************************************************)
(* SpecLlm: extractor/llm_client.py, extract_with_llm.                     *)
(* api_key and oracle are the inputs of the call in progress: the          *)
(* credential argument and what the external oracle does with the request. *)
(* openai_api_key is the module global openai.api_key, requests the keys   *)
(* under which requests were sent, llm_log the outcomes of finished calls. *)
(***************************************************************************)
Key1 == Str(<<"s", "k", "1">>)
Key2 == Str(<<"s", "k", "2">>)
Keys == {NoneStr, Str(<<>>), Key1, Key2}

\* `not api_key`
IsEmptyKey(k) == k.isNone \/ k.s = <<>>

\* What openai.chat.completions.create and the returned content can be:
\* two exceptions of the client, or a content that is no JSON text (such as a
\* truncated object), no content (None), or a JSON object.
OracleOutcomes ==
    {"AuthenticationError", "APIConnectionError", "malformed", "null_content",
     "json_object"}

LlmRes(status, exc, msg, value) ==
    [status |-> status, exc |-> exc, msg |-> msg, value |-> value]

\* The try block: the exception it raises ("none" when it returns) and the
\* value json.loads returns.
LlmTry(o) ==
    CASE o = "AuthenticationError" -> [exc |-> "AuthenticationError", value |-> "none"]
      [] o = "APIConnectionError"  -> [exc |-> "APIConnectionError", value |-> "none"]
      [] o = "malformed"           -> [exc |-> "JSONDecodeError", value |-> "none"]
      [] o = "null_content"        -> [exc |-> "TypeError", value |-> "none"]
      [] OTHER                     -> [exc |-> "none", value |-> "dict"]

\* The except clause: every Exception becomes a RuntimeError, with one message
\* for AuthenticationError and one for all the others.
LlmExcept(exc) ==
    IF exc = "AuthenticationError"
    THEN LlmRes("raised", "RuntimeError", "Invalid OpenAI API key provided", "none")
    ELSE LlmRes("raised", "RuntimeError", "Failed to communicate with the LLM", "none")

NoKeyError == LlmRes("raised", "ValueError", "OpenAI API key not provided", "none")

\* Mutant of extract_with_llm: the credential check comes after the request.
extract_with_llm_late_check(k, o, stored, reqs) ==
    LET t == LlmTry(o) IN
    [result   |-> IF IsEmptyKey(k) THEN NoKeyError
                  ELSE IF t.exc = "none" THEN LlmRes("returned", "none", "none", t.value)
                  ELSE LlmExcept(t.exc),
     key      |-> k,
     requests |-> Append(reqs, k),
     sent     |-> TRUE]

\* extract_with_llm(text, api_key): the result of the call, the stored key and
\* the requests after it.
extract_with_llm(k, o, stored, reqs) ==
    IF IsEmptyKey(k)
    THEN [result |-> NoKeyError, key |-> stored, requests |-> reqs, sent |-> FALSE]
    ELSE LET t == LlmTry(o) IN
         [result   |-> IF t.exc = "none"
                       THEN LlmRes("returned", "none", "none", t.value)
                       ELSE LlmExcept(t.exc),
          key      |-> k,
          requests |-> Append(reqs, k),
          sent     |-> TRUE]

InitLlm ==
    /\ api_key = NoneStr
    /\ oracle = "none"
    /\ openai_api_key \in {NoneStr, Key2}
    /\ requests = <<>>
    /\ llm_result = LlmRes("idle", "none", "none", "none")
    /\ llm_log = {}
    /\ DecIdle /\ AppIdle /\ TxIdle /\ MatchIdle

\* The caller starts a call with some credential; the oracle will answer in
\* some way.
CallExtract ==
    /\ llm_result.status # "running"
    /\ Len(requests) < MaxCalls
    /\ api_key' \in Keys
    /\ oracle' \in OracleOutcomes
    /\ llm_result' = LlmRes("running", "none", "none", "none")
    /\ UNCHANGED <<openai_api_key, requests, llm_log, decVars, appVars, txVars, matchVars>>

ExtractWithLlm ==
    /\ llm_result.status = "running"
    /\ LET r == extract_with_llm(api_key, oracle, openai_api_key, requests) IN
        /\ llm_result' = r.result
        /\ openai_api_key' = r.key
        /\ requests' = r.requests
        /\ llm_log' = llm_log \cup
              {[oracle |-> IF r.sent THEN oracle ELSE "not_called",
                status |-> r.result.status, exc |-> r.result.exc, msg |-> r.result.msg]}
    /\ UNCHANGED <<api_key, oracle, decVars, appVars, txVars, matchVars>>

NextLlm == CallExtract \/ ExtractWithLlm

SpecLlm == InitLlm /\ [][NextLlm]_vars

\* Oracle outcomes that are a response the client cannot parse as a JSON
\* object, and those that are a communication failure.
ParseFailures == {"malformed", "null_content"}
CommunicationFailures == {"APIConnectionError"}

\* C6: a response that cannot be parsed as a JSON object is reported with an
\* error kind distinguishable from the one reported for a communication
\* failure, and in both cases the caller receives an error.
C6_DistinctErrorKinds ==
    /\ \A e \in llm_log :
          e.oracle \in ParseFailures \cup CommunicationFailures => e.status = "raised"
    /\ \A e1, e2 \in llm_log :
          (e1.oracle \in ParseFailures /\ e2.oracle \in CommunicationFailures)
              => <<e1.exc, e1.msg>> # <<e2.exc, e2.msg>>

\* C7: a call without a credential fails with an error before any request is
\* sent and before the stored key is changed; no request is ever issued with
\* an empty credential.
C7_NoCredentialFailsFirst ==
    /\ [](\A i \in 1..Len(requests) : ~IsEmptyKey(requests[i]))
    /\ [][(llm_result.status = "running" /\ IsEmptyKey(api_key)
            /\ llm_result'.status # "running")
          => (/\ llm_result' = NoKeyError
              /\ openai_api_key' = openai_api_key
              /\ requests' = requests)]_vars

\* A call without a credential has failed after earlier calls had stored a key
\* and sent requests.
C7_Witness ==
    /\ IsEmptyKey(api_key)
    /\ llm_result = NoKeyError
    /\ openai_api_key = Key1
    /\ Len(requests) >= 1


(***************************************************************************)
(* extractor/parser.py: transaction files.                                 *)
(* A file is its name's extension and the table pandas reads from it with  *)
(* header=None: a sequence of rows, each a sequence of cells. A cell is     *)
(* NaN (an empty cell), a string or a number (an amount in cents).         *)
(***************************************************************************)
NaN == [k |-> "nan", s |-> <<>>, n |-> 0]
S(s) == [k |-> "s", s |-> s, n |-> 0]
N(n) == [k |-> "n", s |-> <<>>, n |-> n]

RECURSIVE IntStr(_)
IntStr(n) == IF n < 10 THEN <<Digits[n + 1]>> ELSE IntStr(n \div 10) \o <<Digits[(n % 10) + 1]>>

\* str(x) of a cell that is not NaN; an amount prints as a float ("500.0",
\* "0.01", "12.5")
StrOfCell(c) ==
    IF c.k = "s" THEN c.s
    ELSE LET frac == c.n % 100 IN
         IntStr(c.n \div 100) \o <<".">>
         \o (IF frac % 10 = 0 THEN IntStr(frac \div 10)
             ELSE IntStr(frac \div 10) \o IntStr(frac % 10))

\* str.lower() on one character and on a string
LowerMap == [c \in {UpperChars[i] : i \in 1..26} |-> LowerChars[CHOOSE i \in 1..26 : UpperChars[i] = c]] @@ <<>>
LowerChar(c) == IF c \in DOMAIN LowerMap THEN LowerMap[c] ELSE c
Lower(s) == [i \in 1..Len(s) |-> LowerChar(s[i])]

\* str.endswith
EndsWith(s, suffix) ==
    Len(s) >= Len(suffix) /\ SubSeq(s, Len(s) - Len(suffix) + 1, Len(s)) = suffix

ExtCsv == <<".", "c", "s", "v">>
ExtXlsx == <<".", "x", "l", "s", "x">>
ExtXlsxUpper == <<".", "X", "L", "S", "X">>
ExtXls == <<".", "x", "l", "s">>
Exts == {ExtCsv, ExtXlsx, ExtXlsxUpper}

\* transaction_file.name
FileName(f) == <<"t">> \o f.ext

\* What the bytes of the file are: a delimited text, or a spreadsheet binary.
FileFormat(f) == IF Lower(f.ext) = ExtCsv THEN "csv" ELSE "excel"

PreviewRows == 10
HeaderKeywords == <<<<"P", "L", "A", "T", "E">>, <<"P", "L", "A", "K", "A">>>>

Min(a, b) == IF a <= b THEN a ELSE b

\* Mutant of ReadPreview: nrows=10 dropped, the whole table is read.
ReadPreview_all_rows(f) ==
    LET reader == IF EndsWith(FileName(f), ExtXls) \/ EndsWith(FileName(f), ExtXlsx)
                  THEN "excel" ELSE "csv"
    IN  IF reader # FileFormat(f)
        THEN [status |-> "raised", rows |-> <<>>]
        ELSE [status |-> "ok", rows |-> f.rows]

\* df_preview: pd.read_excel(file, header=None, nrows=10) when the name ends
\* in .xls or .xlsx, else pd.read_csv(file, header=None, nrows=10). A reader
\* given bytes of the other format raises.
ReadPreview(f) ==
    LET reader == IF EndsWith(FileName(f), ExtXls) \/ EndsWith(FileName(f), ExtXlsx)
                  THEN "excel" ELSE "csv"
    IN  IF reader # FileFormat(f)
        THEN [status |-> "raised", rows |-> <<>>]
        ELSE [status |-> "ok", rows |-> SubSeq(f.rows, 1, Min(PreviewRows, Len(f.rows)))]

RECURSIVE JoinUpper(_)
\* ' '.join(str(x).upper() for x in row.dropna())
JoinUpper(row) ==
    IF row = <<>> THEN <<>>
    ELSE IF Head(row).k = "nan" THEN JoinUpper(Tail(row))
    ELSE LET rest == JoinUpper(Tail(row)) IN
         IF \A i \in 1..Len(Tail(row)) : Tail(row)[i].k = "nan"
         THEN Upper(StrOfCell(Head(row)))
         ELSE Upper(StrOfCell(Head(row))) \o <<" ">> \o rest

\* any(key.upper() in row_str for key in keywords)
RowMatches(row, keywords) ==
    LET row_str == JoinUpper(row)
    IN  \E j \in 1..Len(keywords) : Contains(row_str, Upper(keywords[j]))

RECURSIVE ScanRows(_, _, _)
\* the loop over df_preview.iterrows(), from 0-based index `index` on
ScanRows(rows, keywords, index) ==
    IF index >= Len(rows) THEN -1
    ELSE IF RowMatches(rows[index + 1], keywords) THEN index
    ELSE ScanRows(rows, keywords, index + 1)

HeaderRes(status, exc, index) == [status |-> status, exc |-> exc, index |-> index]

\* find_header_row(file, keywords)
find_header_row(f, keywords) ==
    LET df_preview == ReadPreview(f) IN
    IF df_preview.status = "raised" THEN HeaderRes("raised", "ReadError", -1)
    ELSE LET index == ScanRows(df_preview.rows, keywords, 0) IN
         IF index >= 0 THEN HeaderRes("ok", "none", index)
         ELSE HeaderRes("raised", "ValueError: Could not find a valid header row", -1)

(***************************************************************************)
(* SpecHeader: find_header_row applied to tables of up to MaxRows rows.    *)
(***************************************************************************)
TitleRow == <<S(<<"P", "a", "r", "t", "n", "e", "r", " ", "F", "i", "l", "o", " ", "R", "e", "p", "o", "r", "t">>)>>
BlankRow == <<NaN, NaN, NaN>>
\* two cells whose texts only together spell a keyword
SplitRow == <<S(<<"P", "L", "A">>), S(<<"K", "A">>), N(50000)>>
FillerRows == {TitleRow, BlankRow, SplitRow}

HeaderMixed == <<S(<<"P", "l", "a", "t", "e">>), S(<<"B", "r", "a", "n", "d">>), S(<<"T", "o", "t", "a", "l", " ", "R", "e", "n", "t">>)>>
HeaderTurkish == <<NaN, S(<<"A", "R", "A", "C", " ", "P", "L", "A", "K", "A", " ", "N", "O">>), S(<<"M", "O", "D", "E", "L">>), S(<<"T", "O", "T", "A", "L", " ", "A", "M", "O", "U", "N", "T">>)>>
HeaderLower == <<S(<<"p", "l", "a", "t", "e", " ", "n", "o">>), S(<<"b", "r", "a", "n", "d", "/", "m", "o", "d", "e", "l">>), S(<<"t", "o", "t", "a", "l", " ", "r", "e", "n", "t", " ", "(", "t", "l", ")">>)>>
KeywordRows == {HeaderMixed, HeaderTurkish, HeaderLower}

\* A table of n rows: the rows at the positions in H are keyword rows, the
\* others filler rows.
HeaderFile(ext, n, H, kw, filler) ==
    [ext |-> ext, rows |-> [i \in 1..n |-> IF i \in H THEN kw ELSE filler]]

HeaderFiles ==
    {HeaderFile(ext, n, H, kw, filler) :
        ext \in Exts, n \in {MaxRows},
        H \in {X \in SUBSET (1..MaxRows) : Cardinality(X) <= 2},
        kw \in KeywordRows, filler \in FillerRows}
    \cup
    {HeaderFile(ext, n, {h}, kw, filler) :
        ext \in Exts, n \in 0..MaxRows, h \in {1, 4, PreviewRows, PreviewRows + 1},
        kw \in KeywordRows, filler \in FillerRows}

InitHeader ==
    /\ transaction_file \in HeaderFiles
    /\ summary_data = [none |-> TRUE]
    /\ pdf_text = <<>>
    /\ header_row = [status |-> "pending"]
    /\ tx_result = [status |-> "pending"]
    /\ DecIdle /\ AppIdle /\ LlmIdle /\ MatchIdle

FindHeaderRow ==
    /\ header_row.status = "pending"
    /\ header_row' = find_header_row(transaction_file, HeaderKeywords)
    /\ UNCHANGED <<transaction_file, summary_data, pdf_text, tx_result, decVars, appVars, llmVars, matchVars>>

NextHeader == FindHeaderRow

SpecHeader == InitHeader /\ [][NextHeader]_vars

\* Some cell of the row contains one of the keywords, case-insensitively.
CellHasKeyword(row) ==
    \E c \in 1..Len(row) : \E j \in 1..Len(HeaderKeywords) :
        /\ row[c].k # "nan"
        /\ Contains(Upper(StrOfCell(row[c])), Upper(HeaderKeywords[j]))

\* 0-based indexes, among the first 10 rows, of the rows with a keyword cell
KeywordIndexes(f) ==
    {i \in 0..(Min(10, Len(f.rows)) - 1) : CellHasKeyword(f.rows[i + 1])}

JAbsent == [st |-> "absent", n |-> 0, d |-> [fmt |-> "none", a |-> 0, b |-> 0, c |-> 0]]
JNull == [st |-> "null", n |-> 0, d |-> [fmt |-> "none", a |-> 0, b |-> 0, c |-> 0]]
JNum(n) == [st |-> "num", n |-> n, d |-> [fmt |-> "none", a |-> 0, b |-> 0, c |-> 0]]
\* a string that is the date text a sep b sep c, or no date text at all
JDate(fmt, a, b, c) == [st |-> "str", n |-> 0, d |-> [fmt |-> fmt, a |-> a, b |-> b, c |-> c]]
JText == [st |-> "str", n |-> 0, d |-> [fmt |-> "garbage", a |-> 0, b |-> 0, c |-> 0]]
JEmptyStr == [st |-> "str", n |-> 0, d |-> [fmt |-> "empty", a |-> 0, b |-> 0, c |-> 0]]

\* dict.get(key): None for an absent key and for an explicit null
IsNoneJ(j) == j.st \in {"absent", "null"}

\* Column labels of the table read with header=header_row_index: the cells
\* of that row, an empty one labelled "Unnamed: <position>".
ColumnLabels(row) ==
    [i \in 1..Len(row) |->
        IF row[i].k = "nan" THEN <<"U", "n", "n", "a", "m", "e", "d", ":", " ">> \o IntStr(i - 1) ELSE StrOfCell(row[i])]

RECURSIVE FirstColumn(_, _, _)
\* the loop of find_column from position i on; 0 when no column matches
FirstColumn(columns, keywords, i) ==
    IF i > Len(columns) THEN 0
    ELSE IF \E j \in 1..Len(keywords) : Contains(Upper(columns[i]), Upper(keywords[j]))
         THEN i
         ELSE FirstColumn(columns, keywords, i + 1)

RECURSIVE FirstColumnCaseSensitive(_, _, _)
FirstColumnCaseSensitive(columns, keywords, i) ==
    IF i > Len(columns) THEN 0
    ELSE IF \E j \in 1..Len(keywords) : Contains(columns[i], Upper(keywords[j]))
         THEN i
         ELSE FirstColumnCaseSensitive(columns, keywords, i + 1)

\* Mutant of find_column: the column name is compared without .upper().
find_column_case_sensitive(columns, keywords) ==
    LET i == FirstColumnCaseSensitive(columns, keywords, 1)
    IN  IF i = 0 THEN NoneStr ELSE Str(columns[i])

\* find_column(columns, keywords): the first column name containing a keyword,
\* or None
find_column(columns, keywords) ==
    LET i == FirstColumn(columns, keywords, 1)
    IN  IF i = 0 THEN NoneStr ELSE Str(columns[i])

PlateKeywords == <<<<"P", "L", "A", "T", "E">>, <<"P", "L", "A", "K", "A">>>>
BrandKeywords == <<<<"B", "R", "A", "N", "D">>, <<"M", "O", "D", "E", "L">>>>
AmountKeywords == <<<<"T", "O", "T", "A", "L", " ", "R", "E", "N", "T">>, <<"T", "O", "T", "A", "L", " ", "A", "M", "O", "U", "N", "T">>>>

\* `not name` for a column name or None
Falsy(name) == name.isNone \/ name.s = <<>>

\* missing = [col for col, name in [('Plate', plate_col), ('Brand', brand_col),
\*            ('Amount', amount_col)] if not name]
MissingColumns(plate_col, brand_col, amount_col) ==
    (IF Falsy(plate_col) THEN <<"Plate">> ELSE <<>>)
    \o (IF Falsy(brand_col) THEN <<"Brand">> ELSE <<>>)
    \o (IF Falsy(amount_col) THEN <<"Amount">> ELSE <<>>)

DefaultVatRate == 200

\* Mutant of VatRate: no default, a missing percentage gives rate 0.
VatRate_no_default(vat_raw) ==
    IF IsNoneJ(vat_raw) THEN [status |-> "ok", rate |-> 0]
    ELSE IF vat_raw.st = "num" THEN [status |-> "ok", rate |-> vat_raw.n * 10]
    ELSE [status |-> "raised", rate |-> 0]

\* vat_rate = (float(vat_raw) / 100.0) if vat_raw is not None else 0.20
\* float() of a string that is no number raises ValueError.
VatRate(vat_raw) ==
    IF IsNoneJ(vat_raw) THEN [status |-> "ok", rate |-> DefaultVatRate]
    ELSE IF vat_raw.st = "num" THEN [status |-> "ok", rate |-> vat_raw.n * 10]
    ELSE [status |-> "raised", rate |-> 0]

NoDate == [isNone |-> TRUE, d |-> 0, m |-> 0, y |-> 0]

\* dateutil.parser.parse(date_str) with its defaults (month first when both
\* readings are possible), then .strftime('%d.%m.%Y'). A text that is no
\* date raises ParserError.
ParseAndFormatDate(t) ==
    CASE t.fmt = "ymd" /\ t.b \in 1..12 /\ t.c \in 1..31 ->
            [status |-> "ok", date |-> [isNone |-> FALSE, d |-> t.c, m |-> t.b, y |-> t.a]]
      [] t.fmt = "dot" /\ t.a \in 1..12 /\ t.b \in 1..31 ->
            [status |-> "ok", date |-> [isNone |-> FALSE, d |-> t.b, m |-> t.a, y |-> t.c]]
      [] t.fmt = "dot" /\ t.a \in 13..31 /\ t.b \in 1..12 ->
            [status |-> "ok", date |-> [isNone |-> FALSE, d |-> t.a, m |-> t.b, y |-> t.c]]
      [] OTHER -> [status |-> "raised", date |-> NoDate]

\* invoice_date = dateparser.parse(date_str).strftime('%d.%m.%Y') if date_str else None
InvoiceDate(date_str) ==
    IF IsNoneJ(date_str) \/ (date_str.st = "str" /\ date_str.d.fmt = "empty")
    THEN [status |-> "ok", date |-> NoDate]
    ELSE IF date_str.st = "str" THEN ParseAndFormatDate(date_str.d)
    ELSE [status |-> "raised", date |-> NoDate]

\* description = "leasing" if "LINE 1" in pdf_text else "GEN.EXP"
Description(text) == IF Contains(text, <<"L", "I", "N", "E", " ", "1">>) THEN "leasing" ELSE "GEN.EXP"

\* the cell of a data row under column position i (short rows are padded)
CellAt(row, i) == IF i <= Len(row) THEN row[i] ELSE NaN

PositionOf(columns, name) == CHOOSE i \in 1..Len(columns) : columns[i] = name.s

\* df['toplam ft.tutari'] * (1 + vat_rate) for one cell
Gross(cell, vat_rate) ==
    IF cell.k = "n" THEN [k |-> "n", n |-> cell.n * (1000 + vat_rate)]
    ELSE [k |-> "nan", n |-> 0]

TxRaised(step, exc, missing) ==
    [status |-> "raised", step |-> step, exc |-> exc, missing |-> missing,
     header_row_index |-> -1, vat_rate |-> 0, invoice_date |-> NoDate,
     description |-> "none", rows |-> <<>>]

\* Mutant of process_transactions: the data is taken from one row too far
\* below the header, so the first data row is lost.
process_transactions_header_late(f, summary, text) ==
    LET h == find_header_row(f, PlateKeywords) IN
    IF h.status = "raised" THEN TxRaised("find_header_row", h.exc, <<>>) ELSE
    LET file_extension == Lower(f.ext)
        reader == IF file_extension = ExtCsv THEN "csv" ELSE "excel"
    IN
    IF reader # FileFormat(f) THEN TxRaised("read", "ReadError", <<>>) ELSE
    LET columns == ColumnLabels(f.rows[h.index + 1])
        data == SubSeq(f.rows, h.index + 3, Len(f.rows))
        plate_col == find_column(columns, PlateKeywords)
        brand_col == find_column(columns, BrandKeywords)
        amount_col == find_column(columns, AmountKeywords)
    IN
    IF Falsy(plate_col) \/ Falsy(brand_col) \/ Falsy(amount_col)
    THEN TxRaised("columns", "ValueError: Could not find required columns",
                  MissingColumns(plate_col, brand_col, amount_col)) ELSE
    LET vat == VatRate(summary.vat_percentage) IN
    IF vat.status = "raised" THEN TxRaised("vat", "ValueError", <<>>) ELSE
    LET date == InvoiceDate(summary.invoice_date) IN
    IF date.status = "raised" THEN TxRaised("date", "ParserError", <<>>) ELSE
    LET description == Description(text)
        pi == PositionOf(columns, plate_col)
        bi == PositionOf(columns, brand_col)
        ai == PositionOf(columns, amount_col)
    IN
    IF \E r \in 1..Len(data) : CellAt(data[r], ai).k = "s"
    THEN TxRaised("gross", "TypeError", <<>>) ELSE
    [status |-> "ok", step |-> "return", exc |-> "none", missing |-> <<>>,
     header_row_index |-> h.index, vat_rate |-> vat.rate, invoice_date |-> date.date,
     description |-> description,
     rows |-> [r \in 1..Len(data) |->
        [PLAKA |-> CellAt(data[r], pi),
         BRAND |-> CellAt(data[r], bi),
         amount |-> CellAt(data[r], ai),
         GROSS |-> Gross(CellAt(data[r], ai), vat.rate),
         DATE |-> date.date,
         DESCTRIPTION |-> description,
         INVOICE |-> summary.invoice_number]]]

\* process_transactions(transaction_file, summary_data, pdf_text)
process_transactions(f, summary, text) ==
    LET h == find_header_row(f, PlateKeywords) IN
    IF h.status = "raised" THEN TxRaised("find_header_row", h.exc, <<>>) ELSE
    LET file_extension == Lower(f.ext)
        reader == IF file_extension = ExtCsv THEN "csv" ELSE "excel"
    IN
    IF reader # FileFormat(f) THEN TxRaised("read", "ReadError", <<>>) ELSE
    LET columns == ColumnLabels(f.rows[h.index + 1])
        data == SubSeq(f.rows, h.index + 2, Len(f.rows))
        plate_col == find_column(columns, PlateKeywords)
        brand_col == find_column(columns, BrandKeywords)
        amount_col == find_column(columns, AmountKeywords)
    IN
    IF Falsy(plate_col) \/ Falsy(brand_col) \/ Falsy(amount_col)
    THEN TxRaised("columns", "ValueError: Could not find required columns",
                  MissingColumns(plate_col, brand_col, amount_col)) ELSE
    LET vat == VatRate(summary.vat_percentage) IN
    IF vat.status = "raised" THEN TxRaised("vat", "ValueError", <<>>) ELSE
    LET date == InvoiceDate(summary.invoice_date) IN
    IF date.status = "raised" THEN TxRaised("date", "ParserError", <<>>) ELSE
    LET description == Description(text)
        pi == PositionOf(columns, plate_col)
        bi == PositionOf(columns, brand_col)
        ai == PositionOf(columns, amount_col)
    IN
    IF \E r \in 1..Len(data) : CellAt(data[r], ai).k = "s"
    THEN TxRaised("gross", "TypeError", <<>>) ELSE
    [status |-> "ok", step |-> "return", exc |-> "none", missing |-> <<>>,
     header_row_index |-> h.index, vat_rate |-> vat.rate, invoice_date |-> date.date,
     description |-> description,
     rows |-> [r \in 1..Len(data) |->
        [PLAKA |-> CellAt(data[r], pi),
         BRAND |-> CellAt(data[r], bi),
         amount |-> CellAt(data[r], ai),
         GROSS |-> Gross(CellAt(data[r], ai), vat.rate),
         DATE |-> date.date,
         DESCTRIPTION |-> description,
         INVOICE |-> summary.invoice_number]]]

(***************************************************************************)
(* SpecTx: process_transactions applied to small transaction files, oracle *)
(* payloads and document texts.                                            *)
(***************************************************************************)
HeaderUpper == <<S(<<"P", "L", "A", "K", "A">>), S(<<"M", "O", "D", "E", "L">>), S(<<"T", "O", "T", "A", "L", " ", "A", "M", "O", "U", "N", "T">>)>>
HeaderNoBrand == <<S(<<"P", "l", "a", "t", "e">>), S(<<"N", "o", "t", "e", "s">>), S(<<"T", "o", "t", "a", "l", " ", "R", "e", "n", "t">>)>>
HeaderPlateOnly == <<S(<<"p", "l", "a", "k", "a">>), NaN, S(<<"R", "e", "n", "t">>)>>
TxHeaders == {<<HeaderMixed>>, <<HeaderUpper>>, <<HeaderLower>>, <<HeaderNoBrand>>,
              <<HeaderPlateOnly>>, <<>>}

DataRows ==
    {<<S(<<"3", "4", "A", "B", "C">>), S(<<"B", "M", "W">>), N(50000)>>,
     <<S(<<"0", "6", "X", "Y", "Z">>), S(<<"F", "I", "A", "T">>), N(1)>>,
     <<S(<<"3", "5", "T", "X", "T">>), S(<<"K", "I", "A">>), S(<<"1", ".", "2", "3", "4", ",", "5", "6">>)>>}

TxTitles == {<<>>, <<TitleRow, BlankRow, TitleRow>>}

TxFiles ==
    {[ext |-> ext, rows |-> titles \o header \o data] :
        ext \in Exts, titles \in TxTitles, header \in TxHeaders,
        data \in SeqsUpTo(DataRows, MaxData)}

VatPayloads == {JAbsent, JNull, JNum(20), JNum(8), JText}
DatePayloads ==
    {JAbsent, JNull, JEmptyStr, JText,
     JDate("ymd", 2025, 6, 1), JDate("dot", 1, 6, 2025), JDate("dot", 13, 6, 2025)}
InvoiceNumberPayloads == {JAbsent, JNum(1235)}

Summaries ==
    {[vat_percentage |-> v, invoice_date |-> d, invoice_number |-> i] :
        v \in VatPayloads, d \in DatePayloads, i \in InvoiceNumberPayloads}

TextLine1 == <<"p", "9", " ", "L", "I", "N", "E", " ", "1", " ", "l", "e", "a", "s", "i", "n", "g">>
TextLine2 == <<"l", "a", "s", "t", " ", "p", "a", "g", "e", " ", "L", "I", "N", "E", " ", "2">>
TextBoth == <<"L", "I", "N", "E", " ", "2", " ", "a", "n", "d", " ", "L", "I", "N", "E", " ", "1">>
TextOtherCase == <<"L", "i", "n", "e", " ", "1", " ", "(", "L", "i", "n", "e", "-", "1", ")">>
TextNoMarker == <<"n", "o", " ", "m", "a", "r", "k", "e", "r">>
PdfTexts == {TextLine1, TextLine2, TextBoth, TextOtherCase, TextNoMarker}

\* The inputs: every file with the payloads that vary the VAT and the date,
\* and the files with a complete header row with every payload and text.
InitTx ==
    /\ \/ /\ transaction_file \in TxFiles
          /\ \E v \in VatPayloads, d \in {JDate("ymd", 2025, 6, 1), JText} :
                summary_data = [vat_percentage |-> v, invoice_date |-> d,
                                invoice_number |-> JNum(1235)]
          /\ pdf_text \in {TextLine1, TextNoMarker}
       \/ /\ \E ext \in {ExtCsv, ExtXlsx}, data \in SeqsUpTo(DataRows, MaxData) :
                transaction_file = [ext |-> ext, rows |-> <<HeaderMixed>> \o data]
          /\ summary_data \in Summaries
          /\ pdf_text \in PdfTexts
    /\ header_row = [status |-> "pending"]
    /\ tx_result = [status |-> "pending"]
    /\ DecIdle /\ AppIdle /\ LlmIdle /\ MatchIdle

ProcessTransactions ==
    /\ tx_result.status = "pending"
    /\ tx_result' = process_transactions(transaction_file, summary_data, pdf_text)
    /\ UNCHANGED <<transaction_file, summary_data, pdf_text, header_row, decVars, appVars, llmVars, matchVars>>

NextTx == ProcessTransactions

SpecTx == InitTx /\ [][NextTx]_vars

C5_ProductCodeFromText ==
    tx_result.status = "ok" =>
        tx_result.description =
            (IF Contains(pdf_text, <<"L", "I", "N", "E", " ", "1">>) THEN "leasing"
             ELSE IF Contains(pdf_text, <<"L", "I", "N", "E", " ", "2">>) THEN "GEN.EXP"
             ELSE "Unknown")

\* The header row of a file that has one among its first 10 rows.
HeaderOf(f) ==
    LET K == KeywordIndexes(f)
    IN  f.rows[(CHOOSE i \in K : \A j \in K : i <= j) + 1]

\* Some column of the header contains one of the keywords, case-insensitively.
Resolvable(header, keywords) ==
    \E c \in 1..Len(header) : \E j \in 1..Len(keywords) :
        /\ header[c].k = "s"
        /\ Contains(Upper(header[c].s), Upper(keywords[j]))

Unresolved(header) ==
    (IF Resolvable(header, PlateKeywords) THEN {} ELSE {"Plate"})
    \cup (IF Resolvable(header, BrandKeywords) THEN {} ELSE {"Brand"})
    \cup (IF Resolvable(header, AmountKeywords) THEN {} ELSE {"Amount"})

\* C9: once the header row is read, process_transactions raises the
\* missing-column error if and only if one of Plate, Brand, Amount cannot be
\* resolved by case-insensitive keyword containment, and the error names
\* exactly the unresolved fields.
C9_MissingColumns ==
    (tx_result.status # "pending" /\ tx_result.step \notin {"find_header_row", "read"}) =>
        LET U == Unresolved(HeaderOf(transaction_file)) IN
        /\ tx_result.step = "columns" <=> U # {}
        /\ tx_result.step = "columns" =>
              /\ {tx_result.missing[i] : i \in 1..Len(tx_result.missing)} = U
              /\ Len(tx_result.missing) = Cardinality(U)
        /\ tx_result.step # "columns" => tx_result.missing = <<>>

\* The error for a header with a plate column only names Brand and Amount.
C9_Witness ==
    /\ tx_result.status = "raised"
    /\ tx_result.step = "columns"
    /\ tx_result.missing = <<"Brand", "Amount">>

\* The invoice date of the payload is absent, empty, or no date at all.
DateAbsentOrUnparseable(j) ==
    IsNoneJ(j) \/ (j.st = "str" /\ j.d.fmt \in {"empty", "garbage"})

\* C10: an invoice date that is absent or cannot be parsed gives no date and
\* no error: the date step does not raise and the output carries a blank date.
C10_NoDateNoError ==
    (tx_result.status # "pending" /\ DateAbsentOrUnparseable(summary_data.invoice_date)) =>
        /\ tx_result.step # "date"
        /\ tx_result.status = "ok" =>
              /\ tx_result.invoice_date.isNone
              /\ \A r \in 1..Len(tx_result.rows) : tx_result.rows[r].DATE.isNone

\* The rows of the file below its header row, in file order.
InputDataRows(f) ==
    LET K == KeywordIndexes(f)
        h == CHOOSE i \in K : \A j \in K : i <= j
    IN  SubSeq(f.rows, h + 2, Len(f.rows))

\* C11: process_transactions returns one output row per input data row, in
\* the same order (row r carries the plate, brand and amount cells of input
\* row r, from columns that are the same for all rows), every row carries the
\* DATE, DESCTRIPTION and INVOICE of the one invoice summary, and GROSS of a
\* row is that row's own amount times (1 + the one VAT rate).
C11_RowBroadcast ==
    tx_result.status = "ok" =>
        LET in == InputDataRows(transaction_file)
            out == tx_result.rows
            header == HeaderOf(transaction_file)
        IN
        /\ Len(out) = Len(in)
        /\ \E pc, bc, ac \in 1..Len(header) :
              /\ Resolvable(<<header[pc]>>, PlateKeywords)
              /\ Resolvable(<<header[bc]>>, BrandKeywords)
              /\ Resolvable(<<header[ac]>>, AmountKeywords)
              /\ \A r \in 1..Len(out) :
                    /\ out[r].PLAKA = CellAt(in[r], pc)
                    /\ out[r].BRAND = CellAt(in[r], bc)
                    /\ out[r].amount = CellAt(in[r], ac)
        /\ \A r \in 1..Len(out) :
              /\ out[r].DATE = tx_result.invoice_date
              /\ out[r].DESCTRIPTION = tx_result.description
              /\ out[r].INVOICE = summary_data.invoice_number
              /\ IF out[r].amount.k = "n"
                 THEN out[r].GROSS = [k |-> "n", n |-> out[r].amount.n * (1000 + tx_result.vat_rate)]
                 ELSE out[r].GROSS.k = "nan"
        /\ IsNoneJ(summary_data.invoice_date) => tx_result.invoice_date.isNone
        /\ summary_data.vat_percentage.st = "num" =>
              tx_result.vat_rate = summary_data.vat_percentage.n * 10

\* Two data rows with different amounts were returned in file order, each
\* with its own GROSS and both with the date and number of the summary.
C11_Witness ==
    /\ tx_result.status = "ok"
    /\ Len(tx_result.rows) = 2
    /\ tx_result.rows[1].amount = N(50000) /\ tx_result.rows[2].amount = N(1)
    /\ tx_result.rows[1].GROSS.n = 50000 * 1080 /\ tx_result.rows[2].GROSS.n = 1080
    /\ tx_result.rows[1].PLAKA = S(<<"3", "4", "A", "B", "C">>) /\ tx_result.rows[2].PLAKA = S(<<"0", "6", "X", "Y", "Z">>)
    /\ ~tx_result.rows[1].DATE.isNone
    /\ tx_result.rows[1].DATE = tx_result.rows[2].DATE
    /\ tx_result.rows[1].INVOICE = JNum(1235) /\ tx_result.rows[2].INVOICE = JNum(1235)

(***************************************************************************)
(* parser.py: parse_pdf_invoice. A PDF is what the function reads from it: *)
(* whether pdfplumber opens it, the groups the four regular expressions    *)
(* capture from its text (None when a pattern does not match), and the     *)
(* text the product-code markers are searched in.                          *)
(***************************************************************************)
Pdf(opens, invoice_no, invoice_date, net_amount, vat, text) ==
    [opens |-> opens, invoice_no |-> invoice_no, invoice_date |-> invoice_date,
     net_amount |-> net_amount, vat |-> vat, text |-> text]

\* a match of vat_pattern with group p, and no match
Vat(p) == [isNone |-> FALSE, p |-> p]
NoVat == [isNone |-> TRUE, p |-> 0]

\* re.search(r"\(Line-1\)", full_text, re.IGNORECASE) and the same for Line-2
ProductCode(full_text) ==
    IF Contains(Upper(full_text), Upper(<<"(", "L", "i", "n", "e", "-", "1", ")">>)) THEN "Leasing"
    ELSE IF Contains(Upper(full_text), Upper(<<"(", "L", "i", "n", "e", "-", "2", ")">>)) THEN "GEN. EXP"
    ELSE "UNKNOWN"

ParsedRow(filename, invoice_number, invoice_date, product_code, net_amount, vat_rate) ==
    [filename |-> filename, invoice_number |-> invoice_number,
     invoice_date |-> invoice_date, product_code |-> product_code,
     net_amount |-> net_amount, vat_rate |-> vat_rate]

NoRow == ParsedRow("", NoneStr, NoneStr, "UNKNOWN", 0, 0)

\* The body of the try block: the exception it raises ("none" when it reaches
\* the return) and the parsed_data dictionary.
ParsePdfBody(pdf, filename) ==
    IF ~pdf.opens THEN [raised |-> "PDFSyntaxError", data |-> NoRow] ELSE
    LET net == IF pdf.net_amount.isNone THEN [status |-> "ok", cents |-> 0]
               ELSE clean_and_convert_decimal(pdf.net_amount)
    IN
    IF net.status # "ok" THEN [raised |-> "InvalidOperation", data |-> NoRow] ELSE
    IF pdf.invoice_no.isNone \/ pdf.invoice_no.s = <<>>
       \/ pdf.invoice_date.isNone \/ pdf.invoice_date.s = <<>>
       \/ pdf.vat.isNone
    THEN [raised |-> "ValueError", data |-> NoRow]
    ELSE [raised |-> "none",
          data |-> ParsedRow(filename, pdf.invoice_no, pdf.invoice_date,
                             ProductCode(pdf.text), net.cents, pdf.vat.p)]

\* The classes `except Exception` catches, among those the body raises.
ExceptionSubclasses == {"PDFSyntaxError", "InvalidOperation", "ValueError"}

ParseResult(status, filename, reason, data) ==
    [status |-> status, filename |-> filename, reason |-> reason, data |-> data]

\* Mutant of parse_pdf_invoice: the handler is `except ValueError`, so other
\* exceptions leave the function.
parse_pdf_invoice_except_value_error(pdf, filename) ==
    LET body == ParsePdfBody(pdf, filename) IN
    IF body.raised = "none" THEN ParseResult("success", filename, "none", body.data)
    ELSE IF body.raised = "ValueError"
         THEN ParseResult("error", filename, body.raised, NoRow)
         ELSE ParseResult("escaped", filename, body.raised, NoRow)

\* parse_pdf_invoice(file_content, filename)
parse_pdf_invoice(pdf, filename) ==
    LET body == ParsePdfBody(pdf, filename) IN
    IF body.raised = "none" THEN ParseResult("success", filename, "none", body.data)
    ELSE IF body.raised \in ExceptionSubclasses
         THEN ParseResult("error", filename, body.raised, NoRow)
         ELSE ParseResult("escaped", filename, body.raised, NoRow)

(***************************************************************************)
(* app.py: the Streamlit script. Every action is one run of the script,    *)
(* started by one interaction. uploaded_files is the content of the file   *)
(* uploader (the files' names), parsed_data, edited_data and error_log are  *)
(* the session state,                                                      *)
(* upload_df is the upload file built in the current run (empty when the   *)
(* run builds none), escaped the exception that ended a run, if any.       *)
(***************************************************************************)
SomeDate == Str(<<"0", "1", "-", "0", "6", "-", "2", "0", "2", "5">>)

\* uploaded_file.getvalue() for every file the user can upload, by name
PdfCatalogue ==
    ("leasing.pdf" :>
        Pdf(TRUE, Str(<<"P", "F", "S", "1">>), SomeDate, Str(<<"3", "6", ".", "8", "8", "5", ",", "0", "0">>), Vat(20), <<"K", "i", "r", "a", " ", "(", "L", "i", "n", "e", "-", "1", ")">>))
    @@ ("genexp.pdf" :>
        Pdf(TRUE, Str(<<"P", "F", "S", "2">>), SomeDate, Str(<<"1", ".", "2", "3", "4", ",", "1", "5">>), Vat(10), <<"M", "a", "s", "r", "a", "f", " ", "(", "l", "i", "n", "e", "-", "2", ")">>))
    @@ ("unknown.pdf" :>
        Pdf(TRUE, Str(<<"P", "F", "S", "3">>), SomeDate, NoneStr, Vat(20), <<"L", "I", "N", "E", " ", "1">>))
    @@ ("corrupt.pdf" :>
        Pdf(FALSE, NoneStr, NoneStr, NoneStr, NoVat, <<>>))
    @@ ("badnet.pdf" :>
        Pdf(TRUE, Str(<<"P", "F", "S", "5">>), SomeDate, Str(<<"1", ",", "2", ",", "3">>), Vat(20), <<"(", "L", "i", "n", "e", "-", "1", ")">>))
    @@ ("novat.pdf" :>
        Pdf(TRUE, Str(<<"P", "F", "S", "6">>), SomeDate, Str(<<"1", "0", "0", ",", "0", "0">>), NoVat, <<"(", "L", "i", "n", "e", "-", "2", ")">>))

\* parse_pdf_invoice(uploaded_file.getvalue(), uploaded_file.name) for every
\* file of the catalogue
ParseOf == [name \in DOMAIN PdfCatalogue |-> parse_pdf_invoice(PdfCatalogue[name], name)] @@ <<>>

RECURSIVE RunBatch(_, _, _, _)
\* the for loop over uploaded_files from position i on
RunBatch(files, i, results, errors) ==
    IF i > Len(files) THEN [results |-> results, errors |-> errors, escaped |-> "none"]
    ELSE LET result == ParseOf[files[i]] IN
         IF result.status = "escaped"
         THEN [results |-> results, errors |-> errors, escaped |-> result.reason]
         ELSE IF result.status = "success"
              THEN RunBatch(files, i + 1, Append(results, result.data), errors)
              ELSE RunBatch(files, i + 1, results,
                            Append(errors, [status |-> "error", filename |-> result.filename,
                                            reason |-> result.reason]))

\* The checks of the validation panel on one row of edited_df.
RowIssues(row) ==
    (IF row.invoice_number.isNone \/ row.invoice_number.s = <<>>
        THEN {"Missing Invoice Number"} ELSE {})
    \cup (IF row.product_code = "UNKNOWN" THEN {"Unrecognized Product Code"} ELSE {})
    \cup (IF ~(0 < row.vat_rate /\ row.vat_rate < 100) THEN {"Invalid VAT Rate"} ELSE {})

\* validation_issues of the run that shows `edited`
ValidationIssues(edited) ==
    UNION {{<<i, issue>> : issue \in RowIssues(edited[i])} : i \in 1..Len(edited)}

\* the lambda of build_upload_df:
\* (net_amount * (Decimal('1') + vat_rate)).quantize(Decimal('0.01'))
GrossAmount(net_amount, vat_rate) == QuantizeHalfEven(net_amount * (100 + vat_rate), 4)

\* build_upload_df(df)
build_upload_df(df) ==
    [i \in 1..Len(df) |->
        [InvoiceID |-> df[i].invoice_number, Date |-> df[i].invoice_date,
         ProductCode |-> df[i].product_code, NetAmount |-> df[i].net_amount,
         VATRate |-> df[i].vat_rate,
         GrossAmount |-> GrossAmount(df[i].net_amount, df[i].vat_rate),
         SourceFile |-> df[i].filename]]

(***************************************************************************)
(* Spec: the script run by run, over a catalogue of uploaded PDFs.         *)
(***************************************************************************)
\* The uploads of one batch: up to MaxFiles different files, in some order.
Batches ==
    {b \in SeqsUpTo(DOMAIN PdfCatalogue, MaxFiles) :
        b # <<>> /\ \A i, j \in 1..Len(b) : i # j => b[i] # b[j]}

\* The outcome of the batch loop for every batch (the loop reads nothing but
\* the uploaded files).
BatchResults == [files \in Batches |-> RunBatch(files, 1, <<>>, <<>>)] @@ <<>>

Init ==
    /\ uploaded_files = <<>>
    /\ parsed_data = <<>>
    /\ edited_data = <<>>
    /\ error_log = <<>>
    /\ upload_df = <<>>
    /\ escaped = "none"
    /\ DecIdle /\ TxIdle /\ LlmIdle /\ MatchIdle

\* Mutant of ParseInvoices: the error log is not replaced, the errors of the
\* batch are added to those already stored.
ParseInvoices_keeps_errors ==
    \E files \in Batches :
        LET batch == BatchResults[files] IN
        /\ uploaded_files' = files
        /\ upload_df' = <<>>
        /\ escaped' = batch.escaped
        /\ parsed_data' = batch.results
        /\ error_log' = error_log \o batch.errors
        /\ edited_data' = IF batch.results = parsed_data THEN edited_data
                          ELSE batch.results
        /\ UNCHANGED <<decVars, txVars, llmVars, matchVars>>

\* The user fills the uploader and presses "Parse Invoices" (lines 91-122),
\* and the run goes on to show the editor (lines 125-151). The editor keeps
\* its pending edits when it is given the same data as before.
ParseInvoices ==
    \E files \in Batches :
        LET batch == BatchResults[files] IN
        /\ uploaded_files' = files
        /\ upload_df' = <<>>
        /\ IF batch.escaped # "none"
           THEN /\ escaped' = batch.escaped
                /\ UNCHANGED <<parsed_data, edited_data, error_log>>
           ELSE /\ escaped' = "none"
                /\ parsed_data' = batch.results
                /\ error_log' = batch.errors
                /\ edited_data' = IF batch.results = parsed_data THEN edited_data
                                  ELSE batch.results
        /\ UNCHANGED <<decVars, txVars, llmVars, matchVars>>

\* Values the user types into the editor (net amounts are left as parsed).
EditedInvoiceNumbers == {Str(<<>>), Str(<<"X", "9">>)}
ProductCodeOptions == {"Leasing", "GEN. EXP", "UNKNOWN"}
EditedVatRates == {0, 20, 150}

\* the number of cells in which the edited table differs from the parsed one
EditCount(edited, parsed) ==
    Cardinality({<<i, f>> \in (1..Len(edited)) \X {"invoice_number", "product_code", "net_amount", "vat_rate"} :
                    edited[i][f] # parsed[i][f]})

EditedTables(edited) ==
    {[edited EXCEPT ![i].invoice_number = v] : i \in 1..Len(edited), v \in EditedInvoiceNumbers}
    \cup {[edited EXCEPT ![i].product_code = v] : i \in 1..Len(edited), v \in ProductCodeOptions}
    \cup {[edited EXCEPT ![i].vat_rate = v] : i \in 1..Len(edited), v \in EditedVatRates}

\* The user changes one cell of the data editor (lines 142-151).
EditCell ==
    /\ parsed_data # <<>>
    /\ \E e \in EditedTables(edited_data) :
          /\ e # edited_data
          /\ EditCount(e, parsed_data) <= MaxEdits
          /\ edited_data' = e
    /\ upload_df' = <<>>
    /\ escaped' = "none"
    /\ UNCHANGED <<uploaded_files, parsed_data, error_log, decVars, txVars, llmVars, matchVars>>

\* Mutant of GenerateEnabled: the button is shown and never disabled.
GenerateEnabled_never_disabled == edited_data # <<>>

\* The "Generate Upload File" button is shown and enabled (lines 185-188).
GenerateEnabled == edited_data # <<>> /\ ValidationIssues(edited_data) = {}

\* The user presses "Generate Upload File" (lines 188-193).
GenerateUploadFile ==
    /\ GenerateEnabled
    /\ upload_df' = build_upload_df(edited_data)
    /\ escaped' = "none"
    /\ UNCHANGED <<uploaded_files, parsed_data, edited_data, error_log, decVars, txVars, llmVars, matchVars>>

Next == ParseInvoices \/ EditCell \/ GenerateUploadFile

Spec == Init /\ [][Next]_vars

\* parse_pdf_invoice cannot produce a record from the PDF: it does not open,
\* a critical field is not found, or the amount text is no decimal.
Unparseable(pdf) ==
    \/ ~pdf.opens
    \/ pdf.invoice_no.isNone \/ pdf.invoice_date.isNone \/ pdf.vat.isNone
    \/ (~pdf.net_amount.isNone /\ pdf.net_amount.s # <<>> /\ ~TurkishForm(pdf.net_amount.s))

\* C1: a failure while parsing one invoice is caught and recorded in the
\* error log under that invoice's filename, nothing escapes the loop, and the
\* invoices after it are processed: every file of the batch, before or after
\* a failure, has its entry in the parsed results or in the error log.
C1_BatchSurvivesFailures ==
    /\ escaped = "none"
    /\ \A i \in 1..Len(uploaded_files) :
          LET name == uploaded_files[i] IN
          IF Unparseable(PdfCatalogue[name])
          THEN /\ \E k \in 1..Len(error_log) :
                     error_log[k].filename = name /\ error_log[k].status = "error"
               /\ \A k \in 1..Len(parsed_data) : parsed_data[k].filename # name
          ELSE /\ \E k \in 1..Len(parsed_data) : parsed_data[k].filename = name
               /\ \A k \in 1..Len(error_log) : error_log[k].filename # name
    /\ Len(parsed_data) + Len(error_log) = Len(uploaded_files)

\* A batch whose first file raised inside the decimal conversion and whose
\* second file was parsed all the same.
C1_Witness ==
    /\ Len(uploaded_files) = 2
    /\ uploaded_files[1] = "badnet.pdf"
    /\ Len(error_log) = 1
    /\ error_log[1].filename = "badnet.pdf"
    /\ error_log[1].reason = "InvalidOperation"
    /\ Len(parsed_data) = 1
    /\ parsed_data[1].filename = uploaded_files[2]

\* C2: every emitted gross amount is net_amount * (1 + vat_rate) rounded to 2
\* fractional digits half-up.
C2_GrossHalfUp ==
    \A i \in 1..Len(upload_df) :
        LET row == upload_df[i]
            exact == row.NetAmount * (100 + row.VATRate)
        IN  row.GrossAmount = (exact + 50) \div 100

\* The names among `files` that parse (unparseable = FALSE) or that do not,
\* in the order of `files`.
NamesWhere(files, unparseable) ==
    SelectSeq(files, LAMBDA name : Unparseable(PdfCatalogue[name]) = unparseable)

FilenamesOf(entries) == [k \in 1..Len(entries) |-> entries[k].filename]

\* C13: the stored state reflects the most recent batch only: the parsed
\* results are exactly its files that parse, once each and in upload order,
\* the error log exactly its files that fail, once each and in upload order
\* (so successes + errors = number of uploaded files and nothing of an earlier
\* batch remains), the edited data has the rows of the parsed results, and
\* parsed_data and edited_data are both empty when the batch had no success.
C13_LatestBatchOnly ==
    LET successes == NamesWhere(uploaded_files, FALSE)
        failures == NamesWhere(uploaded_files, TRUE)
    IN  /\ FilenamesOf(parsed_data) = successes
        /\ FilenamesOf(error_log) = failures
        /\ FilenamesOf(edited_data) = successes
        /\ Len(parsed_data) + Len(error_log) = Len(uploaded_files)
        /\ \A k \in 1..Len(parsed_data) :
              parsed_data[k] = ParseOf[uploaded_files[CHOOSE i \in 1..Len(uploaded_files) :
                                            uploaded_files[i] = parsed_data[k].filename]].data
        /\ successes = <<>> => (parsed_data = <<>> /\ edited_data = <<>>)

\* A batch of two failing files left both in the error log in upload order
\* and the parsed and edited data empty.
C13_Witness ==
    /\ uploaded_files = <<"novat.pdf", "corrupt.pdf">>
    /\ FilenamesOf(error_log) = <<"novat.pdf", "corrupt.pdf">>
    /\ parsed_data = <<>>
    /\ edited_data = <<>>

\* A row has a non-empty invoice number, a known product code and a VAT rate
\* strictly between 0 and 1 (rates are counted in hundredths).
RowValid(row) ==
    /\ ~row.invoice_number.isNone
    /\ row.invoice_number.s # <<>>
    /\ row.product_code \in {"Leasing", "GEN. EXP"}
    /\ row.vat_rate \in 1..99

\* C14: an upload file exists only for edited data without validation issue,
\* row for row the data it was built from; and no run builds an upload file
\* from edited data in which some row has an issue (the button is disabled).
C14_GenerateOnlyValid ==
    /\ [](upload_df # <<>> =>
            /\ \A i \in 1..Len(edited_data) : RowValid(edited_data[i])
            /\ Len(upload_df) = Len(edited_data)
            /\ \A i \in 1..Len(upload_df) :
                  /\ upload_df[i].InvoiceID = edited_data[i].invoice_number
                  /\ upload_df[i].ProductCode = edited_data[i].product_code
                  /\ upload_df[i].VATRate = edited_data[i].vat_rate)
    /\ [][(\E i \in 1..Len(edited_data) : ~RowValid(edited_data[i])) => upload_df' = <<>>]_vars

\* An invoice parsed with an unrecognized product code was corrected in the
\* editor and the upload file was generated with the corrected code.
C14_Witness ==
    /\ upload_df # <<>>
    /\ \E i \in 1..Len(upload_df) :
          /\ parsed_data[i].product_code = "UNKNOWN"
          /\ upload_df[i].ProductCode = "Leasing"

(***************************************************************************)
(* The file matcher find_match(invoice_filename, candidate_filenames).     *)
(* Its code is not among the sources; it is modelled from the contract of  *)
(* the specification, section 4.4, step by step.                           *)
(***************************************************************************)
\* leading and trailing whitespace stripped
RECURSIVE Strip(_)
Strip(s) ==
    IF s = <<>> THEN s
    ELSE IF Head(s) = " " THEN Strip(Tail(s))
    ELSE IF s[Len(s)] = " " THEN Strip(SubSeq(s, 1, Len(s) - 1))
    ELSE s

\* Step 1 (a): the digits of the first parenthesized numeric group
ParenStarts(s) ==
    {i \in 1..Len(s) :
        /\ s[i] = "("
        /\ \E j \in (i + 2)..Len(s) :
              s[j] = ")" /\ \A k \in (i + 1)..(j - 1) : IsDigit(s[k])}

ParenKey(s) ==
    LET i == CHOOSE a \in ParenStarts(s) : \A b \in ParenStarts(s) : a <= b
        j == CHOOSE c \in (i + 2)..Len(s) :
                s[c] = ")" /\ \A k \in (i + 1)..(c - 1) : IsDigit(s[k])
    IN  SubSeq(s, i + 1, j - 1)

\* Step 1 (b): the first code made of PFS followed by digits
VendorPrefix == <<"P", "F", "S">>

PfsStarts(s) ==
    {i \in 1..(Len(s) - 3) :
        SubSeq(s, i, i + 2) = VendorPrefix /\ IsDigit(s[i + 3])}

PfsKey(s) ==
    LET i == CHOOSE a \in PfsStarts(s) : \A b \in PfsStarts(s) : a <= b
        e == CHOOSE c \in (i + 3)..Len(s) :
                /\ \A k \in (i + 3)..c : IsDigit(s[k])
                /\ (c = Len(s) \/ ~IsDigit(s[c + 1]))
    IN  SubSeq(s, i, e)

\* Step 1: the search key, the parenthesized group first, or None
SearchKey(s) ==
    IF ParenStarts(s) # {} THEN Str(ParenKey(s))
    ELSE IF PfsStarts(s) # {} THEN Str(PfsKey(s))
    ELSE NoneStr

\* Step 2: the candidate's name contains the key, case-insensitively, both
\* stripped
ContainsKey(candidate, key) == Contains(Upper(Strip(candidate)), Upper(Strip(key)))

\* Step 3: the marker
Marker == <<"I", "N", "V", "O", "I", "C", "E", " ", "D", "E", "T", "A", "I", "L", "S">>
HasMarker(candidate) == Contains(Upper(candidate), Upper(Marker))

NoMatch == [status |-> "done", found |-> FALSE, name |-> <<>>]
Match(name) == [status |-> "done", found |-> TRUE, name |-> name]

\* Mutant of find_match: step 3 without the preference, the first filtered
\* candidate wins.
find_match_first_wins(filename, candidates) ==
    LET key == SearchKey(filename) IN
    IF key.isNone THEN NoMatch ELSE
    LET filtered == SelectSeq(candidates, LAMBDA c : ContainsKey(c, key.s)) IN
    IF filtered = <<>> THEN NoMatch
    ELSE Match(filtered[1])

\* find_match(invoice_filename, candidate_filenames)
find_match(filename, candidates) ==
    LET key == SearchKey(filename) IN
    IF key.isNone THEN NoMatch ELSE
    LET filtered == SelectSeq(candidates, LAMBDA c : ContainsKey(c, key.s))
        preferred == SelectSeq(filtered, HasMarker)
    IN
    IF filtered = <<>> THEN NoMatch
    ELSE IF preferred # <<>> THEN Match(preferred[1])
    ELSE Match(filtered[1])

(***************************************************************************)
(* SpecMatch: find_match applied to a few invoice names and to every list  *)
(* of up to MaxCands different candidate names.                            *)
(***************************************************************************)
InvoiceParen == <<"I", "n", "v", "o", "i", "c", "e", " ", "(", "1", "5", "3", ")", " ", "f", "i", "n", "a", "l", ".", "p", "d", "f">>
InvoicePfs == <<"P", "F", "S", "1", "5", "3", " ", "s", "c", "a", "n", ".", "p", "d", "f">>
InvoiceBoth == <<"P", "F", "S", "1", "5", "3", " ", "(", "4", "2", ")", ".", "p", "d", "f">>
InvoiceNotNumeric == <<"I", "n", "v", " ", "(", "1", "a", ")", " ", "P", "F", "S", "4", "2", ".", "p", "d", "f">>
InvoiceNoKey == <<"i", "n", "v", "o", "i", "c", "e", " ", "1", "5", "3", ".", "p", "d", "f">>
InvoiceNames == {InvoiceParen, InvoicePfs, InvoiceBoth, InvoiceNotNumeric, InvoiceNoKey}

CandDetails == <<"R", "e", "p", "o", "r", "t", " ", "1", "5", "3", " ", "I", "N", "V", "O", "I", "C", "E", " ", "D", "E", "T", "A", "I", "L", "S", ".", "x", "l", "s", "x">>
CandOther == <<"R", "e", "p", "o", "r", "t", " ", "1", "5", "3", " ", "o", "t", "h", "e", "r", ".", "c", "s", "v">>
CandDetailsLower == <<"p", "f", "s", "1", "5", "3", " ", "i", "n", "v", "o", "i", "c", "e", " ", "d", "e", "t", "a", "i", "l", "s", ".", "c", "s", "v">>
CandFortyTwo == <<"R", "e", "p", "o", "r", "t", " ", "P", "F", "S", "4", "2", ".", "c", "s", "v">>
CandMarkerOnly == <<"I", "N", "V", "O", "I", "C", "E", " ", "D", "E", "T", "A", "I", "L", "S", " ", "9", "9", ".", "x", "l", "s", "x">>
CandidateNames == {CandDetails, CandOther, CandDetailsLower, CandFortyTwo, CandMarkerOnly}

CandidateLists ==
    {c \in SeqsUpTo(CandidateNames, MaxCands) : \A i, j \in 1..Len(c) : i # j => c[i] # c[j]}

InitMatch ==
    /\ invoice_filename \in InvoiceNames
    /\ candidate_filenames \in CandidateLists
    /\ best_match = [status |-> "idle"]
    /\ DecIdle /\ AppIdle /\ TxIdle /\ LlmIdle

FindMatch ==
    /\ best_match.status = "idle"
    /\ best_match' = find_match(invoice_filename, candidate_filenames)
    /\ UNCHANGED <<invoice_filename, candidate_filenames, decVars, appVars, txVars, llmVars>>

NextMatch == FindMatch

SpecMatch == InitMatch /\ [][NextMatch]_vars

\* The search key of each invoice name of SpecMatch, read off the name by hand.
ExpectedKey ==
    (InvoiceParen :> Str(<<"1", "5", "3">>))
    @@ (InvoicePfs :> Str(<<"P", "F", "S", "1", "5", "3">>))
    @@ (InvoiceBoth :> Str(<<"4", "2">>))
    @@ (InvoiceNotNumeric :> Str(<<"P", "F", "S", "4", "2">>))
    @@ (InvoiceNoKey :> NoneStr)

Reverse(s) == [i \in 1..Len(s) |-> s[Len(s) + 1 - i]]

\* C12: find_match returns a candidate containing the key and the marker
\* "INVOICE DETAILS" (case-insensitively) whenever there is one, whatever the
\* order of the list; otherwise the first candidate containing the key, in
\* input order; and no match when no candidate contains the key or the
\* invoice name has neither a parenthesized number nor a PFS code.
C12_FindMatch ==
    best_match.status = "done" =>
        LET key == ExpectedKey[invoice_filename]
            c == candidate_filenames
            KC == IF key.isNone THEN {}
                  ELSE {i \in 1..Len(c) : Contains(Upper(c[i]), Upper(key.s))}
            KM == {i \in KC : Contains(Upper(c[i]), Marker)}
            reversed == find_match(invoice_filename, Reverse(c))
        IN
        /\ KC = {} => best_match = NoMatch
        /\ KM # {} =>
              /\ best_match.found
              /\ \E i \in KM : best_match.name = c[i]
              /\ reversed.found
              /\ \E i \in KM : reversed.name = c[i]
              /\ Cardinality(KM) = 1 => reversed = best_match
        /\ (KC # {} /\ KM = {}) =>
              best_match = Match(c[CHOOSE i \in KC : \A j \in KC : i <= j])

\* The marker-bearing candidate was chosen although it came second in the
\* list, after another candidate with the key.
C12_Witness ==
    /\ invoice_filename = InvoiceParen
    /\ candidate_filenames = <<CandOther, CandDetails>>
    /\ best_match = Match(CandDetails)

====
